---- MODULE Spec2Model ----
(***************************************************************************)
(* Model of vlora/entrypoints/llm.py: the per-request generation state     *)
(* (TextGeneration) and the continuous-batching loop (MultiLora.run) that  *)
(* batches prefill and decode requests of several LoRA adapters, and       *)
(* recycles finished requests from per-key prompt lists.                   *)
(***************************************************************************)
EXTENDS Integers, Sequences, FiniteSets, TLC

VARIABLES
    lora_specs,        \* self.lora_specs: model name -> [lora_prompts, base_prompts]
    counter,           \* self.counter
    req_counter,       \* self.req_counter: key -> index of the next prompt
    reqctx,            \* self.reqctx: insertion-ordered dict, a sequence of <<key, object id>>
    obj,               \* the TextGeneration objects, by object id
    kvpool,            \* the KvCache of each TextGeneration, by object id
    nobj,              \* number of TextGeneration objects constructed so far
    stop_signal,       \* self.stop_signal (threading.Event)
    pc,                \* position of the thread executing run()
    reqs,              \* run(): the sorted snapshot of reqctx.items()
    i,                 \* run(): index of the postprocess loop
    prefill_input_ids, \* run(): gathered batch
    prefill_lens,
    prefill_kv,
    decode_input_ids,
    decode_kv,
    lora_ids,
    lora_lens,
    logits,            \* run(): the rows the postprocess loop indexes
    box,               \* the output sink behind append_box, per key
    trail              \* per object: what the calls made on it so far amount to

vars == <<lora_specs, counter, req_counter, reqctx, obj, kvpool, nobj, stop_signal,
          pc, reqs, i, prefill_input_ids, prefill_lens, prefill_kv, decode_input_ids,
          decode_kv, lora_ids, lora_lens, logits, box, trail>>

batchvars == <<reqs, prefill_input_ids, prefill_lens, prefill_kv, decode_input_ids,
               decode_kv, lora_ids, lora_lens, logits>>

----------------------------------------------------------------------------
(* Bounds of the model. *)

\* self.maxlen (1024 in the source), scaled down
MaxLen == 3
\* longest prompt list of a LoraSpec
MaxPrompts == 2
\* longest token history of the request the decode cursor is followed on
MaxHistory == 4

----------------------------------------------------------------------------
(* Tokens and the tokenizer. *)

\* Llama token ids: <s>, </s>, a byte-fallback piece, a word piece
BOS == 1
EOS == 2
BYTE == 3
WORD == 4

\* the token ids of the model
Vocab == {BOS, EOS, BYTE, WORD}

\* the ids that are sampled in run(): the stop token and another one
Sampled == {EOS, WORD}

\* the prompt strings of the LoraSpecs
PromptTexts == {"", "a", "a b"}

\* tokenizer.encode: <s> followed by the word pieces of the text
encode(text) ==
    IF text = "" THEN <<BOS>>
    ELSE IF text = "a" THEN <<BOS, WORD>>
    ELSE <<BOS, WORD, WORD>>

\* the replacement character tokenizer.decode gives for an incomplete byte sequence
FFFD == "\\uFFFD"

IsSpecial(t) == t \in {BOS, EOS}

RECURSIVE Pieces(_)
\* the text of the pieces: a word piece carries its leading space, two byte
\* pieces in a row make one character, a byte piece alone is undecodable
Pieces(ids) ==
    IF ids = <<>> THEN <<>>
    ELSE IF Head(ids) = WORD THEN <<" ", "w">> \o Pieces(Tail(ids))
    ELSE IF Len(ids) >= 2 /\ ids[2] = BYTE THEN <<"e">> \o Pieces(Tail(Tail(ids)))
    ELSE <<FFFD>> \o Pieces(Tail(ids))

\* tokenizer.decode(ids, skip_special_tokens=True): special tokens dropped, the
\* space before the first word dropped
decode(ids) ==
    LET t == Pieces(SelectSeq(ids, LAMBDA x : ~IsSpecial(x)))
    IN  IF t # <<>> /\ t[1] = " " THEN Tail(t) ELSE t

endswith(text, ch) == text # <<>> /\ text[Len(text)] = ch

----------------------------------------------------------------------------
(* TextGeneration. *)

\* KvCache(kvpool, init_len)
KvCacheNew(init_len) == [seqlen |-> init_len, released |-> 0]

\* KvCache.acquire_one
KvAcquireOne(kv) == [kv EXCEPT !.seqlen = @ + 1]

\* KvCache.release
KvRelease(kv) == [kv EXCEPT !.released = @ + 1]

\* a TextGeneration that already holds a generated token when it is constructed
TextGenerationNewStepped(input_ids, lora_id, id) ==
    [output_ids    |-> Append(input_ids, WORD),
     prompt_len    |-> Len(input_ids),
     kvcache       |-> id,
     lora_id       |-> lora_id,
     maxlen        |-> MaxLen,
     stop_token_id |-> EOS,
     prefix_offset |-> 0,
     read_offset   |-> 0]


\* TextGeneration.__init__
TextGenerationNew(input_ids, lora_id, id) ==
    [output_ids    |-> input_ids,
     prompt_len    |-> Len(input_ids),
     kvcache       |-> id,
     lora_id       |-> lora_id,
     maxlen        |-> MaxLen,
     stop_token_id |-> EOS,
     prefix_offset |-> 0,
     read_offset   |-> 0]

append_token(o, token_id) == [o EXCEPT !.output_ids = Append(@, token_id)]

\* is_stop with the length test off by one
is_stop_over(o) ==
    \/ Len(o.output_ids) > o.maxlen
    \/ o.output_ids[Len(o.output_ids)] = o.stop_token_id

is_stop(o) ==
    \/ Len(o.output_ids) >= o.maxlen
    \/ o.output_ids[Len(o.output_ids)] = o.stop_token_id

\* is_prefill that still holds after the first token
is_prefill_late(o) == Len(o.output_ids) <= o.prompt_len + 1

is_prefill(o) == Len(o.output_ids) = o.prompt_len

\* decode_tokens that leaves read_offset where it was
decode_tokens_stale(o) ==
    LET prefix_text == decode(SubSeq(o.output_ids, o.prefix_offset + 1, o.read_offset))
        new_text    == decode(SubSeq(o.output_ids, o.prefix_offset + 1, Len(o.output_ids)))
    IN  IF Len(new_text) > Len(prefix_text) /\ ~endswith(new_text, FFFD)
        THEN [o    |-> [o EXCEPT !.prefix_offset = o.read_offset],
              text |-> SubSeq(new_text, Len(prefix_text) + 1, Len(new_text))]
        ELSE [o |-> o, text |-> <<>>]

\* decode_tokens: the object after the call, and the returned text
decode_tokens(o) ==
    LET prefix_text == decode(SubSeq(o.output_ids, o.prefix_offset + 1, o.read_offset))
        new_text    == decode(SubSeq(o.output_ids, o.prefix_offset + 1, Len(o.output_ids)))
    IN  IF Len(new_text) > Len(prefix_text) /\ ~endswith(new_text, FFFD)
        THEN [o    |-> [o EXCEPT !.prefix_offset = o.read_offset,
                                 !.read_offset = Len(o.output_ids)],
              text |-> SubSeq(new_text, Len(prefix_text) + 1, Len(new_text))]
        ELSE [o |-> o, text |-> <<>>]

----------------------------------------------------------------------------
(* Python containers. *)

\* dict: a sequence of <<key, value>> in insertion order
DictKeys(d) == {d[n][1] : n \in 1..Len(d)}

DictHas(d, k) == k \in DictKeys(d)

DictGet(d, k) == d[CHOOSE n \in 1..Len(d) : d[n][1] = k][2]

\* d[k] = v: a present key keeps its place, a new key goes last
DictSet(d, k, v) ==
    IF DictHas(d, k)
    THEN [n \in 1..Len(d) |-> IF d[n][1] = k THEN <<k, v>> ELSE d[n]]
    ELSE Append(d, <<k, v>>)

\* del d[k]
DictDel(d, k) == SelectSeq(d, LAMBDA kv : kv[1] # k)

RECURSIVE Sum(_)
Sum(s) == IF s = <<>> THEN 0 ELSE Head(s) + Sum(Tail(s))

----------------------------------------------------------------------------
(* MultiLora: construction. *)

\* the keys of lora_specs, in dict order
ModelNames == <<"gsm8k", "viggo">>

Keys == {<<ModelNames[m], lob>> : m \in 1..Len(ModelNames), lob \in {"lora", "base"}}

\* the order in which __init__ visits the keys
InitOrder ==
    <<  <<"gsm8k", "lora">>, <<"gsm8k", "base">>, <<"viggo", "lora">>, <<"viggo", "base">> >>

\* the prompts of a list: a short one and a long one in turn
PromptAt(n) == IF n % 2 = 1 THEN "" ELSE "a"

\* the prompt lists a LoraSpec is given: up to MaxPrompts prompts
PromptLists == {[n \in 1..len |-> PromptAt(n)] : len \in 0..MaxPrompts}

LoraSpecs == [{ModelNames[m] : m \in 1..Len(ModelNames)} ->
                [lora_prompts : PromptLists, base_prompts : PromptLists]]

\* prompt lists that begin with a prompt of three tokens
LongPromptAt(n) == IF n = 1 THEN "a b" ELSE PromptAt(n)

LongPromptLists == {[n \in 1..len |-> LongPromptAt(n)] : len \in 0..MaxPrompts}

LongLoraSpecs == [{ModelNames[m] : m \in 1..Len(ModelNames)} ->
                    [lora_prompts : LongPromptLists, base_prompts : LongPromptLists]]

\* what is remembered of the calls made on a TextGeneration object
TrailNew(key, input_ids) ==
    [key |-> key, prompt_len |-> Len(input_ids), appends |-> 0, first |-> 0,
     prefills |-> 0, flushes |-> 0, text |-> <<>>, moved |-> FALSE,
     marked |-> FALSE, ended |-> FALSE]

\* _create_request taking the prompts of a key from the end of its list
_create_request_from_end(st, key) ==
    LET prompts == IF key[2] = "lora" THEN st.lora_specs[key[1]].lora_prompts
                   ELSE st.lora_specs[key[1]].base_prompts
        lora_id == IF key[2] = "lora" THEN key[1] ELSE "empty"
    IN  IF st.req_counter[key] >= Len(prompts)
        THEN [st EXCEPT !.counter = @ - 1]
        ELSE LET input_ids == encode(prompts[Len(prompts) - st.req_counter[key]])
                 id == st.nobj + 1
                 textgen == TextGenerationNew(input_ids, lora_id, id)
             IN  [st EXCEPT !.req_counter[key] = @ + 1,
                            !.nobj = id,
                            !.obj = (id :> textgen) @@ @,
                            !.kvpool = (id :> KvCacheNew(textgen.prompt_len)) @@ @,
                            !.trail = (id :> TrailNew(key, input_ids)) @@ @,
                            !.reqctx = DictSet(@, key, id)]


\* _create_request that leaves the counter alone when the key has no prompt left
_create_request_nodec(st, key) ==
    LET prompts == IF key[2] = "lora" THEN st.lora_specs[key[1]].lora_prompts
                   ELSE st.lora_specs[key[1]].base_prompts
        lora_id == IF key[2] = "lora" THEN key[1] ELSE "empty"
    IN  IF st.req_counter[key] >= Len(prompts)
        THEN st
        ELSE LET input_ids == encode(prompts[st.req_counter[key] + 1])
                 id == st.nobj + 1
                 textgen == TextGenerationNew(input_ids, lora_id, id)
             IN  [st EXCEPT !.req_counter[key] = @ + 1,
                            !.nobj = id,
                            !.obj = (id :> textgen) @@ @,
                            !.kvpool = (id :> KvCacheNew(textgen.prompt_len)) @@ @,
                            !.trail = (id :> TrailNew(key, input_ids)) @@ @,
                            !.reqctx = DictSet(@, key, id)]


\* _create_request on the scheduler state st
_create_request(st, key) ==
    LET prompts == IF key[2] = "lora" THEN st.lora_specs[key[1]].lora_prompts
                   ELSE st.lora_specs[key[1]].base_prompts
        lora_id == IF key[2] = "lora" THEN key[1] ELSE "empty"
    IN  IF st.req_counter[key] >= Len(prompts)
        THEN [st EXCEPT !.counter = @ - 1]
        ELSE LET input_ids == encode(prompts[st.req_counter[key] + 1])
                 id == st.nobj + 1
                 textgen == TextGenerationNew(input_ids, lora_id, id)
             IN  [st EXCEPT !.req_counter[key] = @ + 1,
                            !.nobj = id,
                            !.obj = (id :> textgen) @@ @,
                            !.kvpool = (id :> KvCacheNew(textgen.prompt_len)) @@ @,
                            !.trail = (id :> TrailNew(key, input_ids)) @@ @,
                            !.reqctx = DictSet(@, key, id)]

RECURSIVE CreateAll(_, _)
\* the loop of __init__ over the keys
CreateAll(st, keys) ==
    IF keys = <<>> THEN st
    ELSE CreateAll(_create_request(st, Head(keys)), Tail(keys))

\* MultiLora.__init__(specs)
MultiLoraNew(specs) ==
    CreateAll([lora_specs  |-> specs,
               counter     |-> Cardinality(DOMAIN specs) * 2,
               req_counter |-> [k \in Keys |-> 0],
               reqctx      |-> <<>>,
               obj         |-> <<>>,
               kvpool      |-> <<>>,
               trail       |-> <<>>,
               nobj        |-> 0],
              InitOrder)

\* the scheduler state as a record, and back
Sched ==
    [lora_specs |-> lora_specs, counter |-> counter, req_counter |-> req_counter,
     reqctx |-> reqctx, obj |-> obj, kvpool |-> kvpool, trail |-> trail, nobj |-> nobj]

SetSched(st) ==
    /\ lora_specs' = st.lora_specs
    /\ counter' = st.counter
    /\ req_counter' = st.req_counter
    /\ reqctx' = st.reqctx
    /\ obj' = st.obj
    /\ kvpool' = st.kvpool
    /\ trail' = st.trail
    /\ nobj' = st.nobj

BoxNew == [k \in Keys |-> [last |-> <<>>, ends |-> 0]]

\* the state after MultiLora(specs), for any specs of the set
InitFrom(specs_set) ==
    \E specs \in specs_set :
        LET st == MultiLoraNew(specs)
        IN  /\ lora_specs = st.lora_specs
            /\ counter = st.counter
            /\ req_counter = st.req_counter
            /\ reqctx = st.reqctx
            /\ obj = st.obj
            /\ kvpool = st.kvpool
            /\ trail = st.trail
            /\ nobj = st.nobj
            /\ stop_signal = FALSE
            /\ pc = "start"
            /\ reqs = <<>>
            /\ i = 0
            /\ prefill_input_ids = <<>>
            /\ prefill_lens = <<>>
            /\ prefill_kv = <<>>
            /\ decode_input_ids = <<>>
            /\ decode_kv = <<>>
            /\ lora_ids = <<>>
            /\ lora_lens = <<>>
            /\ logits = <<>>
            /\ box = BoxNew

Init == InitFrom(LoraSpecs)

InitLong == InitFrom(LongLoraSpecs)

----------------------------------------------------------------------------
(* MultiLora.run: forming the batch. *)

\* Python's order on the lora ids, as strings: "empty" < "gsm8k" < "viggo"
LoraOrd(lora_id) ==
    IF lora_id = "empty" THEN 0 ELSE IF lora_id = "gsm8k" THEN 1 ELSE 2

\* a sort key that leaves out the phase
SortKeyLoraOnly(o) == LoraOrd(o.lora_id)


\* the sort key (not is_prefill(), lora_id), as one number
SortKey(o) == (IF is_prefill(o) THEN 0 ELSE 3) + LoraOrd(o.lora_id)

RECURSIVE SortedInsert(_, _, _)
\* kv put into the sorted sequence s behind every item that is not greater
SortedInsert(s, kv, objs) ==
    IF s = <<>> THEN <<kv>>
    ELSE IF SortKey(objs[kv[2]]) < SortKey(objs[Head(s)[2]]) THEN <<kv>> \o s
    ELSE <<Head(s)>> \o SortedInsert(Tail(s), kv, objs)

RECURSIVE SortedFrom(_, _, _)
SortedFrom(done, items, objs) ==
    IF items = <<>> THEN done
    ELSE SortedFrom(SortedInsert(done, Head(items), objs), Tail(items), objs)

\* the requests in dict order, not sorted
unsorted(items, objs) == items

\* sorted(self.reqctx.items(), key=...): stable
sorted(items, objs) == SortedFrom(<<>>, items, objs)

BatchNew(pool, tr) ==
    [prefill_input_ids |-> <<>>, prefill_lens |-> <<>>, prefill_kv |-> <<>>,
     decode_input_ids |-> <<>>, decode_kv |-> <<>>, lora_ids |-> <<>>, lora_lens |-> <<>>,
     kvpool |-> pool, trail |-> tr]

\* a round of the gather loop that does not extend the cache of a decode request
GatherOneNoExtend(b, o) ==
    LET b1 == IF is_prefill(o)
              THEN [b EXCEPT !.prefill_input_ids = @ \o o.output_ids,
                             !.prefill_lens = Append(@, Len(o.output_ids)),
                             !.prefill_kv = Append(@, o.kvcache),
                             !.trail[o.kvcache].prefills = @ + 1]
              ELSE [b EXCEPT !.decode_input_ids = Append(@, o.output_ids[Len(o.output_ids)]),
                             !.decode_kv = Append(@, o.kvcache)]
    IN  IF b1.lora_ids # <<>> /\ b1.lora_ids[Len(b1.lora_ids)] = o.lora_id
        THEN [b1 EXCEPT !.lora_lens[Len(b1.lora_lens)] = @ + 1]
        ELSE [b1 EXCEPT !.lora_ids = Append(@, o.lora_id),
                        !.lora_lens = Append(@, 1)]

\* a round of the gather loop that records every prefill segment as one row long
GatherOneUnitLens(b, o) ==
    LET b1 == IF is_prefill(o)
              THEN [b EXCEPT !.prefill_input_ids = @ \o o.output_ids,
                             !.prefill_lens = Append(@, 1),
                             !.prefill_kv = Append(@, o.kvcache),
                             !.trail[o.kvcache].prefills = @ + 1]
              ELSE [b EXCEPT !.decode_input_ids = Append(@, o.output_ids[Len(o.output_ids)]),
                             !.decode_kv = Append(@, o.kvcache),
                             !.kvpool[o.kvcache] = KvAcquireOne(@)]
    IN  IF b1.lora_ids # <<>> /\ b1.lora_ids[Len(b1.lora_ids)] = o.lora_id
        THEN [b1 EXCEPT !.lora_lens[Len(b1.lora_lens)] = @ + 1]
        ELSE [b1 EXCEPT !.lora_ids = Append(@, o.lora_id),
                        !.lora_lens = Append(@, 1)]


\* one round of the gather loop, for the request object o
GatherOne(b, o) ==
    LET b1 == IF is_prefill(o)
              THEN [b EXCEPT !.prefill_input_ids = @ \o o.output_ids,
                             !.prefill_lens = Append(@, Len(o.output_ids)),
                             !.prefill_kv = Append(@, o.kvcache),
                             !.trail[o.kvcache].prefills = @ + 1]
              ELSE [b EXCEPT !.decode_input_ids = Append(@, o.output_ids[Len(o.output_ids)]),
                             !.decode_kv = Append(@, o.kvcache),
                             !.kvpool[o.kvcache] = KvAcquireOne(@)]
    IN  IF b1.lora_ids # <<>> /\ b1.lora_ids[Len(b1.lora_ids)] = o.lora_id
        THEN [b1 EXCEPT !.lora_lens[Len(b1.lora_lens)] = @ + 1]
        ELSE [b1 EXCEPT !.lora_ids = Append(@, o.lora_id),
                        !.lora_lens = Append(@, 1)]

RECURSIVE Gather(_, _, _)
\* the gather loop over the sorted requests
Gather(b, rs, objs) ==
    IF rs = <<>> THEN b
    ELSE Gather(GatherOne(b, objs[Head(rs)[2]]), Tail(rs), objs)

\* BatchLenInfo.indptr[1:], the end of each prefill segment
Indptr(lens) == [n \in 1..Len(lens) |-> Sum(SubSeq(lens, 1, n))]

\* self.model(...): one row of logits per input token, named by its position
ModelRows(n_tokens) == [r \in 1..n_tokens |-> r]

\* the logits of the model handed on without any selection
SelectRowsAll(rows, lens, has_prefill, has_decode) == rows


\* the rows kept for the postprocess loop
SelectRows(rows, lens, has_prefill, has_decode) ==
    LET last == [n \in 1..Len(lens) |-> rows[Indptr(lens)[n]]]
        doff == Sum(lens)
    IN  IF has_prefill
        THEN IF has_decode THEN last \o SubSeq(rows, doff + 1, Len(rows)) ELSE last
        ELSE rows

----------------------------------------------------------------------------
(* MultiLora.run: the steps of the thread. *)

append_box(b, key, text) == [b EXCEPT ![key].last = text]

\* the session-end marker
EndMarker == <<"\n------\n\n">>

append_end(b, key) == [b EXCEPT ![key].last = EndMarker, ![key].ends = @ + 1]

\* what a decode_tokens call leaves in the trail
Flushed(t, o, r) ==
    [t EXCEPT !.flushes = IF @ >= 2 THEN 2 ELSE @ + 1,
              !.text = r.text,
              !.moved = (r.o.prefix_offset # o.prefix_offset
                         \/ r.o.read_offset # o.read_offset)]

RECURSIVE FirstFlush(_, _, _, _)
\* lines 216-217: the text of every request's prompt goes to its box
FirstFlush(items, objs, b, tr) ==
    IF items = <<>> THEN [obj |-> objs, box |-> b, trail |-> tr]
    ELSE LET key == Head(items)[1]
             id == Head(items)[2]
             r == decode_tokens(objs[id])
         IN  FirstFlush(Tail(items), [objs EXCEPT ![id] = r.o],
                        append_box(b, key, r.text),
                        [tr EXCEPT ![id] = Flushed(@, objs[id], r)])

RunStart ==
    /\ pc = "start"
    /\ LET f == FirstFlush(reqctx, obj, box, trail)
       IN  /\ obj' = f.obj
           /\ box' = f.box
           /\ trail' = f.trail
    /\ pc' = "loop"
    /\ UNCHANGED <<lora_specs, counter, req_counter, reqctx, kvpool, nobj, stop_signal,
                   i, batchvars>>

\* line 219, the loop is left
Return ==
    /\ pc = "loop"
    /\ ~(counter > 0)
    /\ pc' = "done"
    /\ UNCHANGED <<lora_specs, counter, req_counter, reqctx, obj, kvpool, nobj,
                   stop_signal, i, batchvars, box, trail>>

\* lines 219-256: the loop is entered, the requests sorted and the batch gathered
FormBatch ==
    /\ pc = "loop"
    /\ counter > 0
    /\ LET rs == sorted(reqctx, obj)
           b == Gather(BatchNew(kvpool, trail), rs, obj)
       IN  /\ reqs' = rs
           /\ prefill_input_ids' = b.prefill_input_ids
           /\ prefill_lens' = b.prefill_lens
           /\ prefill_kv' = b.prefill_kv
           /\ decode_input_ids' = b.decode_input_ids
           /\ decode_kv' = b.decode_kv
           /\ lora_ids' = b.lora_ids
           /\ lora_lens' = b.lora_lens
           /\ kvpool' = b.kvpool
           /\ trail' = b.trail
    /\ pc' = "forward"
    /\ UNCHANGED <<lora_specs, counter, req_counter, reqctx, obj, nobj, stop_signal,
                   i, logits, box>>

\* the model call failing only after the first request of the batch got its token
FormBatchFailsAfterToken ==
    /\ pc = "loop"
    /\ counter > 0
    /\ LET rs == sorted(reqctx, obj)
           b == Gather(BatchNew(kvpool, trail), rs, obj)
       IN  /\ kvpool' = b.kvpool
           /\ trail' = b.trail
           /\ obj' = [obj EXCEPT ![rs[1][2]] = append_token(@, WORD)]
    /\ pc' = "failed"
    /\ UNCHANGED <<lora_specs, counter, req_counter, reqctx, nobj, stop_signal,
                   i, batchvars, box>>


\* lines 219-257 when self.model(...) raises: the requests were sorted and the
\* batch gathered, the exception leaves run()
FormBatchFails ==
    /\ pc = "loop"
    /\ counter > 0
    /\ LET rs == sorted(reqctx, obj)
           b == Gather(BatchNew(kvpool, trail), rs, obj)
       IN  /\ kvpool' = b.kvpool
           /\ trail' = b.trail
    /\ pc' = "failed"
    /\ UNCHANGED <<lora_specs, counter, req_counter, reqctx, obj, nobj, stop_signal,
                   i, batchvars, box>>

\* f without the objects no request of the dict d refers to
Live(f, d) == [id \in {d[n][2] : n \in 1..Len(d)} |-> f[id]]

\* the postprocess loop goes on with request n of the batch; behind the last one
\* the round is over: its locals and the objects it deleted are dead
Continue(n, objs, tr) ==
    IF n > Len(reqs)
    THEN /\ pc' = "loop"
         /\ i' = 0
         /\ reqs' = <<>>
         /\ prefill_input_ids' = <<>>
         /\ prefill_lens' = <<>>
         /\ prefill_kv' = <<>>
         /\ decode_input_ids' = <<>>
         /\ decode_kv' = <<>>
         /\ lora_ids' = <<>>
         /\ lora_lens' = <<>>
         /\ logits' = <<>>
         /\ obj' = Live(objs, reqctx)
         /\ trail' = Live(tr, reqctx)
    ELSE /\ pc' = "post"
         /\ i' = n
         /\ UNCHANGED <<reqs, prefill_input_ids, prefill_lens, prefill_kv,
                        decode_input_ids, decode_kv, lora_ids, lora_lens, logits>>
         /\ obj' = objs
         /\ trail' = tr

\* lines 257-264: the model runs, the logits rows of the requests are picked
Forward ==
    /\ pc = "forward"
    /\ logits' = SelectRows(ModelRows(Len(prefill_input_ids) + Len(decode_input_ids)),
                            prefill_lens, prefill_kv # <<>>, decode_kv # <<>>)
    /\ i' = 1
    /\ pc' = "post"
    /\ UNCHANGED <<lora_specs, counter, req_counter, reqctx, obj, kvpool, nobj,
                   stop_signal, reqs, prefill_input_ids, prefill_lens, prefill_kv,
                   decode_input_ids, decode_kv, lora_ids, lora_lens, box, trail>>

\* the key and the object of the request the postprocess loop is at
CurKey == reqs[i][1]
CurId == reqs[i][2]

\* get_next_token_id: multinomial sampling (temperature 0.9, top_p 0.9), any id
\* may come out of it
get_next_token_id(row) == Sampled

\* lines 268-271: a token is sampled from the request's row and appended, the new
\* text goes to the box, the stop condition is tested
PostToken ==
    /\ pc = "post"
    /\ \E next_token_id \in get_next_token_id(logits[i]) :
        LET o == append_token(obj[CurId], next_token_id)
            r == decode_tokens(o)
            objs == [obj EXCEPT ![CurId] = r.o]
            tr == [trail EXCEPT ![CurId] =
                      Flushed([@ EXCEPT !.appends = @ + 1,
                                        !.first = IF trail[CurId].appends = 0
                                                  THEN next_token_id ELSE @,
                                        !.flushes = 0], o, r)]
        IN  /\ box' = append_box(box, CurKey, r.text)
            /\ IF is_stop(r.o)
               THEN /\ pc' = "stopped"
                    /\ obj' = objs
                    /\ trail' = tr
                    /\ UNCHANGED <<i, batchvars>>
               ELSE Continue(i + 1, objs, tr)
    /\ UNCHANGED <<lora_specs, counter, req_counter, reqctx, kvpool, nobj, stop_signal>>

\* _delete_request that does not release the cache
_delete_request_leak(st, key) ==
    LET id == DictGet(st.reqctx, key)
    IN  [st EXCEPT !.reqctx = DictDel(@, key),
                   !.trail[id].ended = TRUE]

\* _delete_request that leaves the request in the dict
_delete_request_keep(st, key) ==
    LET id == DictGet(st.reqctx, key)
    IN  [st EXCEPT !.kvpool[st.obj[id].kvcache] = KvRelease(@),
                   !.trail[id].ended = TRUE]

\* _delete_request on the scheduler state st
_delete_request(st, key) ==
    LET id == DictGet(st.reqctx, key)
    IN  [st EXCEPT !.kvpool[st.obj[id].kvcache] = KvRelease(@),
                   !.reqctx = DictDel(@, key),
                   !.trail[id].ended = TRUE]

\* lines 272-273: the end marker goes to the box, the request is deleted
EndRequest ==
    /\ pc = "stopped"
    /\ box' = append_end(box, CurKey)
    /\ SetSched(_delete_request([Sched EXCEPT !.trail[CurId].marked = TRUE], CurKey))
    /\ pc' = "create"
    /\ UNCHANGED <<stop_signal, i, batchvars>>

\* line 274: the next request of the key is created, if it has one
CreateRequest ==
    /\ pc = "create"
    /\ SetSched(_create_request(Sched, CurKey))
    /\ pc' = "flush"
    /\ UNCHANGED <<stop_signal, i, batchvars, box>>

\* line 274 when KvCache(kvpool, prompt_len) raises in TextGeneration.__init__
\* (line 61): the prompt was taken (line 187), the exception leaves run()
CreateRequestFails ==
    /\ pc = "create"
    /\ LET prompts == IF CurKey[2] = "lora" THEN lora_specs[CurKey[1]].lora_prompts
                      ELSE lora_specs[CurKey[1]].base_prompts
       IN  req_counter[CurKey] < Len(prompts)
    /\ req_counter' = [req_counter EXCEPT ![CurKey] = @ + 1]
    /\ pc' = "nocache"
    /\ UNCHANGED <<lora_specs, counter, reqctx, obj, kvpool, nobj, stop_signal, i,
                   batchvars, box, trail>>

\* lines 275-278: the prompt text of the new request goes to the box
FlushNew ==
    /\ pc = "flush"
    /\ DictHas(reqctx, CurKey)
    /\ LET id == DictGet(reqctx, CurKey)
           r == decode_tokens(obj[id])
       IN  /\ box' = append_box(box, CurKey, r.text)
           /\ Continue(i + 1, [obj EXCEPT ![id] = r.o],
                       [trail EXCEPT ![id] = Flushed(@, obj[id], r)])
    /\ UNCHANGED <<lora_specs, counter, req_counter, reqctx, kvpool, nobj, stop_signal>>

\* line 277: self.reqctx[key] of a key that has no request raises KeyError,
\* which leaves run()
RaiseKeyError ==
    /\ pc = "flush"
    /\ ~DictHas(reqctx, CurKey)
    /\ pc' = "raised"
    /\ UNCHANGED <<lora_specs, counter, req_counter, reqctx, obj, kvpool, nobj,
                   stop_signal, i, batchvars, box, trail>>

\* stop(), called by another thread
Stop ==
    /\ stop_signal' = TRUE
    /\ UNCHANGED <<lora_specs, counter, req_counter, reqctx, obj, kvpool, nobj, pc, i,
                   batchvars, box, trail>>

\* a step of the thread in run()
RunStep ==
    \/ RunStart
    \/ Return
    \/ FormBatch
    \/ FormBatchFails
    \/ Forward
    \/ PostToken
    \/ EndRequest
    \/ CreateRequest
    \/ CreateRequestFails
    \/ FlushNew
    \/ RaiseKeyError

Next == RunStep \/ Stop

Spec == Init /\ [][Next]_vars

\* the same program, given prompts as long as maxlen
SpecLong == InitLong /\ [][Next]_vars

----------------------------------------------------------------------------
(* One TextGeneration object on its own: append_token and decode_tokens   *)
(* called in any order.                                                    *)

CursorKey == <<"gsm8k", "lora">>

InitCursor ==
    \E input_ids \in UNION {[1..n -> Vocab] : n \in 0..1} :
        /\ lora_specs = [m \in {ModelNames[n] : n \in 1..Len(ModelNames)} |->
                            [lora_prompts |-> <<>>, base_prompts |-> <<>>]]
        /\ counter = 1
        /\ req_counter = [k \in Keys |-> 0]
        /\ reqctx = << <<CursorKey, 1>> >>
        /\ obj = (1 :> TextGenerationNew(input_ids, "gsm8k", 1))
        /\ kvpool = (1 :> KvCacheNew(Len(input_ids)))
        /\ trail = (1 :> TrailNew(CursorKey, input_ids))
        /\ nobj = 1
        /\ stop_signal = FALSE
        /\ pc = "cursor"
        /\ reqs = <<>>
        /\ i = 0
        /\ prefill_input_ids = <<>>
        /\ prefill_lens = <<>>
        /\ prefill_kv = <<>>
        /\ decode_input_ids = <<>>
        /\ decode_kv = <<>>
        /\ lora_ids = <<>>
        /\ lora_lens = <<>>
        /\ logits = <<>>
        /\ box = BoxNew

CursorAppend ==
    /\ pc = "cursor"
    /\ Len(obj[1].output_ids) < MaxHistory
    /\ \E token_id \in Vocab :
        /\ obj' = [obj EXCEPT ![1] = append_token(@, token_id)]
        /\ trail' = [trail EXCEPT ![1].appends = @ + 1,
                                  ![1].first = IF trail[1].appends = 0 THEN token_id ELSE @,
                                  ![1].flushes = 0]
    /\ UNCHANGED <<lora_specs, counter, req_counter, reqctx, kvpool, nobj, stop_signal,
                   pc, i, batchvars, box>>

CursorFlush ==
    /\ pc = "cursor"
    /\ LET r == decode_tokens(obj[1])
       IN  /\ obj' = [obj EXCEPT ![1] = r.o]
           /\ box' = append_box(box, CursorKey, r.text)
           /\ trail' = [trail EXCEPT ![1] = Flushed(@, obj[1], r)]
    /\ UNCHANGED <<lora_specs, counter, req_counter, reqctx, kvpool, nobj, stop_signal,
                   pc, i, batchvars>>

NextCursor == CursorAppend \/ CursorFlush

SpecCursor == InitCursor /\ [][NextCursor]_vars

----------------------------------------------------------------------------
(* Properties. *)

\* the objects of the requests in the dict
LiveIds == {reqctx[n][2] : n \in 1..Len(reqctx)}

SlotLen(id) == kvpool[obj[id].kvcache].seqlen

\* the prompt list of a key
PromptsOf(key) ==
    IF key[2] = "lora" THEN lora_specs[key[1]].lora_prompts
    ELSE lora_specs[key[1]].base_prompts

\* C1: when the request of a key stops and the key has no prompt left, the round
\* goes on: run() is not left by an exception at the recycling of that key (the key
\* is gone from the dict and the counter is one less).
C1_ExhaustedKeyRoundCompletes ==
    ~(pc = "raised" /\ ~DictHas(reqctx, CurKey)
      /\ req_counter[CurKey] >= Len(PromptsOf(CurKey)))

RunOf(n) == CHOOSE a \in 1..Len(lora_lens) :
                /\ Sum(SubSeq(lora_lens, 1, a)) >= n
                /\ Sum(SubSeq(lora_lens, 1, a - 1)) < n

RunMembers(a) == {n \in 1..Len(reqs) : RunOf(n) = a}

\* C3, as stated: no lora id is in two runs of the batch.
C3_NoAdapterInTwoRuns ==
    pc = "forward" =>
        \A a, b \in 1..Len(lora_ids) : a < b => lora_ids[a] # lora_ids[b]

\* C3, amended: a lora id is in two runs of the batch only when the earlier run is
\* made of prefill requests and the later one of decode requests (so in at most two).
C3_AdapterRunsByPhase ==
    pc = "forward" =>
        \A a, b \in 1..Len(lora_ids) :
            (a < b /\ lora_ids[a] = lora_ids[b]) =>
                /\ \A n \in RunMembers(a) : is_prefill(obj[reqs[n][2]])
                /\ \A n \in RunMembers(b) : ~is_prefill(obj[reqs[n][2]])

\* a batch in which a lora id has two runs
C3_Witness ==
    /\ pc = "forward"
    /\ \E a, b \in 1..Len(lora_ids) : a < b /\ lora_ids[a] = lora_ids[b]

\* C4: the cache of a request is released once, when the request is deleted in the
\* round in which it stops, and before the next request of its key is created; no
\* cache is released twice.
C4_ReleasedOnce ==
    /\ \A id \in DOMAIN kvpool :
          /\ kvpool[id].released <= 1
          /\ kvpool[id].released = 1 <=> id \notin LiveIds
    /\ \A id \in LiveIds :
          (trail[id].appends > 0 /\ is_stop(obj[id])) => (pc = "stopped" /\ CurId = id)
    /\ pc = "create" => (~DictHas(reqctx, CurKey) /\ kvpool[CurId].released = 1)

\* the next request of a key is there, the cache of the one before it is released
C4_Witness ==
    /\ pc = "flush"
    /\ DictHas(reqctx, CurKey)
    /\ kvpool[CurId].released = 1
    /\ kvpool[DictGet(reqctx, CurKey)].released = 0

\* C5: the requests in the dict have caches of their own, none of them released,
\* and no released cache is in the prefill or decode caches of a batch (the decode
\* caches being the ones that are extended).
C5_NoSharedOrReleasedSlot ==
    /\ \A m, n \in 1..Len(reqctx) :
          m # n => obj[reqctx[m][2]].kvcache # obj[reqctx[n][2]].kvcache
    /\ \A id \in LiveIds : kvpool[obj[id].kvcache].released = 0
    /\ pc = "forward" =>
          /\ \A n \in 1..Len(prefill_kv) : kvpool[prefill_kv[n]].released = 0
          /\ \A n \in 1..Len(decode_kv) : kvpool[decode_kv[n]].released = 0

\* a batch of prefill and decode requests, formed after a cache was released
C5_Witness ==
    /\ pc = "forward"
    /\ prefill_kv # <<>>
    /\ decode_kv # <<>>
    /\ \E id \in DOMAIN kvpool : kvpool[id].released = 1

\* C6: run() ends by returning, with the counter 0 and no request in the dict.
C6_RunReturnsWhenDrained ==
    pc \in {"done", "raised"} => (pc = "done" /\ counter = 0 /\ reqctx = <<>>)

\* C7: with the stop signal set, the test at the head of the loop leaves the loop:
\* no batch is formed.
C7_StopLeavesLoop ==
    [][(stop_signal /\ pc = "loop") => pc' # "forward"]_vars

\* C8: is_prefill() holds of a request until its first append_token and never
\* after it, and a request is gathered as a prefill request in at most one batch.
C8_PrefillUntilFirstAppend ==
    \A id \in DOMAIN obj :
        /\ is_prefill(obj[id]) <=> trail[id].appends = 0
        /\ trail[id].prefills <= 1
        /\ trail[id].appends > 0 => trail[id].prefills = 1

\* a request that got two tokens
C8_Witness ==
    \E id \in DOMAIN obj : trail[id].appends >= 2 /\ trail[id].prefills = 1

\* the request object id has been deleted: marker sent, cache released, out of the dict
Ended(id) ==
    /\ trail[id].marked
    /\ trail[id].ended
    /\ kvpool[obj[id].kvcache].released = 1
    /\ id \notin LiveIds
    /\ box[trail[id].key].ends >= 1

\* C9: a request with maxlen = prompt_len + 1, or whose first token is the stop
\* token, stops in its first round: it has one token when is_stop() holds, and it
\* is deleted in that round (no round ends with it in the dict).
C9_StopsInFirstRound ==
    \A id \in DOMAIN obj :
        (/\ trail[id].appends > 0
         /\ \/ obj[id].maxlen = obj[id].prompt_len + 1
            \/ trail[id].first = obj[id].stop_token_id)
        => /\ trail[id].appends = 1
           /\ is_stop(obj[id])
           /\ \/ pc = "stopped" /\ CurId = id
              \/ Ended(id)

\* a request with maxlen = prompt_len + 1 got another token than the stop token
\* and was deleted
C9_Witness ==
    \E id \in DOMAIN obj :
        /\ obj[id].maxlen = obj[id].prompt_len + 1
        /\ trail[id].first = WORD
        /\ Ended(id)

\* C10: a decode_tokens call that follows another one with no append_token between
\* them returns no text and leaves prefix_offset and read_offset as they are.
C10_NoDoubleEmission ==
    \A id \in DOMAIN obj :
        trail[id].flushes >= 2 => (trail[id].text = <<>> /\ ~trail[id].moved)

\* decode_tokens was called twice on a history whose text the first call returned
C10_Witness ==
    /\ pc = "cursor"
    /\ trail[1].flushes = 2
    /\ obj[1].read_offset = Len(obj[1].output_ids)
    /\ obj[1].prefix_offset < obj[1].read_offset
    /\ decode(SubSeq(obj[1].output_ids, obj[1].prefix_offset + 1,
                     Len(obj[1].output_ids))) # <<>>


\* C11: a request whose prompt is as long as maxlen or longer is never in the
\* dict, so no request in the dict has more than maxlen tokens.
C11_NoRequestOverMaxlen ==
    \A id \in LiveIds :
        /\ obj[id].prompt_len < obj[id].maxlen
        /\ Len(obj[id].output_ids) <= obj[id].maxlen

\* C12, as stated: a round whose model call fails changes nothing: not the
\* output_ids or the offsets of a request, not the box, not the dict or the counter,
\* and no other state of a request (its cache included).
C12_FailedStepNoEffect ==
    [][(pc = "loop" /\ pc' = "failed") =>
          /\ obj' = obj
          /\ box' = box
          /\ reqctx' = reqctx
          /\ counter' = counter
          /\ req_counter' = req_counter
          /\ kvpool' = kvpool]_vars

\* C12, amended: a round whose model call fails leaves the output_ids and offsets
\* of every request, the box, the dict and the counter as they were; the cache of
\* every request past its prefill is one position longer (acquire_one ran while the
\* batch was gathered), the cache of a request in prefill is as it was, and no cache
\* is released.
C12_FailedStepKeepsHistory ==
    [][(pc = "loop" /\ pc' = "failed") =>
          /\ obj' = obj
          /\ box' = box
          /\ reqctx' = reqctx
          /\ counter' = counter
          /\ req_counter' = req_counter
          /\ \A id \in LiveIds :
                /\ kvpool'[obj[id].kvcache].seqlen =
                      kvpool[obj[id].kvcache].seqlen
                        + (IF is_prefill(obj[id]) THEN 0 ELSE 1)
                /\ kvpool'[obj[id].kvcache].released =
                      kvpool[obj[id].kvcache].released]_vars

\* the model call failed on a batch with a request in prefill and one past it
C12_Witness ==
    /\ pc = "failed"
    /\ \E id \in LiveIds : is_prefill(obj[id]) /\ SlotLen(id) = Len(obj[id].output_ids)
    /\ \E id \in LiveIds : ~is_prefill(obj[id]) /\ SlotLen(id) = Len(obj[id].output_ids)

\* C13: when the cache of the new request of a key cannot be allocated, run() goes
\* on with the round (or the next one), the key is not in the dict, and the prompt
\* is still the next one of the key.
C13_FailedCreateKeepsPrompt ==
    [][(pc = "create" /\ pc' \notin {"create", "flush"}) =>
          /\ pc' \in {"post", "loop"}
          /\ ~DictHas(reqctx', CurKey)
          /\ req_counter'[CurKey] = req_counter[CurKey]]_vars

\* the object of the n-th request of the batch
ReqObj(n) == obj[reqs[n][2]]

\* C14: in the batch handed to the model every request in prefill comes before
\* every request past it, and among the requests of one phase the adapter ids do not
\* decrease, so requests of one phase with the same adapter are next to each other.
C14_PrefillFirstAdaptersGrouped ==
    pc = "forward" =>
        \A m, n \in 1..Len(reqs) :
            /\ (is_prefill(ReqObj(m)) /\ ~is_prefill(ReqObj(n))) => m < n
            /\ (m < n /\ is_prefill(ReqObj(m)) = is_prefill(ReqObj(n))) =>
                  /\ LoraOrd(ReqObj(m).lora_id) <= LoraOrd(ReqObj(n).lora_id)
                  /\ ReqObj(m).lora_id = ReqObj(n).lora_id =>
                        \A k \in m..n : ReqObj(k).lora_id = ReqObj(m).lora_id

\* a batch of both phases that is not in dict order, with two requests of one phase
\* and one adapter
C14_Witness ==
    /\ pc = "forward"
    /\ reqs # reqctx
    /\ \E m, n \in 1..Len(reqs) : is_prefill(ReqObj(m)) /\ ~is_prefill(ReqObj(n))
    /\ \E m, n \in 1..Len(reqs) :
          /\ m < n
          /\ is_prefill(ReqObj(m)) = is_prefill(ReqObj(n))
          /\ ReqObj(m).lora_id = ReqObj(n).lora_id

\* the rows the n-th request of the batch has in the input of the model
Rows(n) == IF is_prefill(ReqObj(n)) THEN ReqObj(n).prompt_len ELSE 1

\* the batch positions of the requests in prefill, and of those past it, in order
PrefillIdx == SelectSeq([n \in 1..Len(reqs) |-> n], LAMBDA n : is_prefill(ReqObj(n)))

DecodeIdx == SelectSeq([n \in 1..Len(reqs) |-> n], LAMBDA n : ~is_prefill(ReqObj(n)))

\* the input of the model: input_ids = prefill_input_ids + decode_input_ids
InputIds == prefill_input_ids \o decode_input_ids

\* C15: the input of the model has one row per prompt token of every request in
\* prefill and one row per request past it; prefill_lens has one entry per request
\* in prefill, its prompt length, in batch order, and each of these segments holds
\* that request's prompt; there is one decode row per request past prefill, holding
\* its last token.
C15_RowsMatchRequests ==
    pc = "forward" =>
        /\ Len(InputIds) = Sum([n \in 1..Len(reqs) |-> Rows(n)])
        /\ prefill_lens = [k \in 1..Len(PrefillIdx) |-> ReqObj(PrefillIdx[k]).prompt_len]
        /\ Len(prefill_input_ids) = Sum(prefill_lens)
        /\ \A k \in 1..Len(PrefillIdx) :
              SubSeq(prefill_input_ids, Indptr(prefill_lens)[k] - prefill_lens[k] + 1,
                     Indptr(prefill_lens)[k]) = ReqObj(PrefillIdx[k]).output_ids
        /\ decode_input_ids =
              [k \in 1..Len(DecodeIdx) |->
                  ReqObj(DecodeIdx[k]).output_ids[Len(ReqObj(DecodeIdx[k]).output_ids)]]

\* a batch with a prefill segment of two rows and a decode row
C15_Witness ==
    /\ pc = "forward"
    /\ \E k \in 1..Len(prefill_lens) : prefill_lens[k] = 2
    /\ decode_input_ids # <<>>
    /\ Len(InputIds) > Len(reqs)

RECURSIVE Expand(_, _)
\* every id of ids repeated as often as lens says, in order
Expand(ids, lens) ==
    IF ids = <<>> THEN <<>>
    ELSE [k \in 1..Head(lens) |-> Head(ids)] \o Expand(Tail(ids), Tail(lens))

\* the adapter of every row of the input of the model
RowAdapters ==
    Expand([n \in 1..Len(reqs) |-> ReqObj(n).lora_id], [n \in 1..Len(reqs) |-> Rows(n)])

\* C16: the adapter runs (lora_ids, lora_lens) of a batch partition the rows of the
\* input of the model: the run lengths add up to the number of rows, every row lies
\* in a run of its own request's adapter, and neighbouring runs differ in adapter.
C16_RunsPartitionRows ==
    pc = "forward" =>
        /\ Sum(lora_lens) = Len(InputIds)
        /\ Expand(lora_ids, lora_lens) = RowAdapters
        /\ \A a \in 1..(Len(lora_ids) - 1) : lora_ids[a] # lora_ids[a + 1]

\* the row of the input of the model at which the n-th request of the batch ends:
\* the last row of its segment of prefill_input_ids, or its row of decode_input_ids
OwnRow(n) ==
    IF is_prefill(ReqObj(n))
    THEN Indptr(prefill_lens)[CHOOSE k \in 1..Len(PrefillIdx) : PrefillIdx[k] = n]
    ELSE Len(prefill_input_ids) + (CHOOSE k \in 1..Len(DecodeIdx) : DecodeIdx[k] = n)

\* C17: when the postprocess loop starts, logits has one row per request of the
\* batch, and the i-th row is the output of the model at the i-th request's own
\* position, the row that holds the last token of that request.
C17_LogitsRowIsOwnRow ==
    (pc = "post" /\ i = 1) =>
        /\ Len(logits) = Len(reqs)
        /\ \A n \in 1..Len(reqs) :
              /\ logits[n] = OwnRow(n)
              /\ InputIds[OwnRow(n)] = ReqObj(n).output_ids[Len(ReqObj(n).output_ids)]

\* the postprocess loop starts on a batch with a prefill segment of two rows that
\* is not the last request, and a decode row
C17_Witness ==
    /\ pc = "post"
    /\ i = 1
    /\ \E n \in 1..Len(reqs) : is_prefill(ReqObj(n)) /\ Rows(n) = 2 /\ n < Len(reqs)
    /\ \E n \in 1..Len(reqs) : ~is_prefill(ReqObj(n))

\* the requests of the batch of the round
BatchIds == {reqs[n][2] : n \in 1..Len(reqs)}

\* C18: a request created during a round is not in the batch of that round: while
\* the round lasts it has got no token and its cache is as long as its prompt. When
\* the next batch goes to the model every request of the dict is in it, and a
\* request that has got no token yet is in it as a prefill request, its cache still
\* as long as its prompt.
C18_NewRequestWaitsForNextRound ==
    /\ pc \in {"post", "stopped", "create", "flush", "raised", "nocache"} =>
          \A id \in LiveIds \ BatchIds :
              /\ trail[id].appends = 0
              /\ trail[id].prefills = 0
              /\ is_prefill(obj[id])
              /\ SlotLen(id) = obj[id].prompt_len
    /\ pc = "forward" =>
          \A id \in LiveIds :
              /\ id \in BatchIds
              /\ trail[id].appends = 0 =>
                    /\ is_prefill(obj[id])
                    /\ \E k \in 1..Len(prefill_kv) : prefill_kv[k] = id
                    /\ SlotLen(id) = obj[id].prompt_len

\* the batch after a round in which a request was replaced: the new request in
\* prefill, next to a request that has got a token
C18_Witness ==
    /\ pc = "forward"
    /\ \E id \in LiveIds :
          /\ box[trail[id].key].ends >= 1
          /\ trail[id].appends = 0
          /\ trail[id].prefills = 1
    /\ \E id \in LiveIds : trail[id].appends > 0

\* the prompt tokens of a request
PromptOf(id) == SubSeq(obj[id].output_ids, 1, obj[id].prompt_len)

\* C19: the requests of a key take the prompts of the key in list order, one each:
\* the request of a key that follows n ended requests of the key holds prompt
\* number n + 1 of the key's list and req_counter of the key is n + 1; a key takes
\* no prompt but at construction and once after each of its requests that ended.
C19_PromptsInQueueOrder ==
    \A key \in Keys :
        /\ req_counter[key] \in {box[key].ends, box[key].ends + 1}
        /\ req_counter[key] <= Len(PromptsOf(key))
        /\ DictHas(reqctx, key) =>
              /\ req_counter[key] = box[key].ends + 1
              /\ PromptOf(DictGet(reqctx, key)) =
                    encode(PromptsOf(key)[box[key].ends + 1])

\* the second request of a key, holding the key's second prompt, has got a token
C19_Witness ==
    \E key \in Keys :
        /\ DictHas(reqctx, key)
        /\ box[key].ends = 1
        /\ PromptOf(DictGet(reqctx, key)) = encode(PromptsOf(key)[2])
        /\ PromptsOf(key)[2] # PromptsOf(key)[1]
        /\ trail[DictGet(reqctx, key)].appends > 0

\* C20: whenever run() is about to test its loop condition (after construction and
\* after every completed round) the counter is the number of keys in the dict, so
\* the loop goes on exactly when the dict holds a request, and the batch handed to
\* the model is never empty.
C20_CounterIsDictSize ==
    /\ pc \in {"start", "loop"} =>
          /\ counter = Len(reqctx)
          /\ counter > 0 <=> reqctx # <<>>
    /\ pc = "forward" => (reqs # <<>> /\ Len(reqs) = counter)

\* after a completed round in which a request was replaced, with a key that never
\* had a prompt
C20_Witness ==
    /\ pc = "loop"
    /\ counter > 0
    /\ counter < Cardinality(Keys)
    /\ \E key \in Keys : box[key].ends >= 1 /\ DictHas(reqctx, key)
====
